---- MODULE Spec2Model ----
(***************************************************************************)
(* The recognition session of toughcrowd (hooks/useSpeechToText.ts): one   *)
(* mounted useSpeechToText hook together with the speech recognizer it     *)
(* owns.  Caller operations are start, stop and resetTranscript; the       *)
(* recognizer delivers onstart, onresult, onerror and onend.               *)
(*                                                                         *)
(* In Spec the hook is mounted with fixed options, as TranscriptPanel      *)
(* mounts it: onResult is provided and lang keeps its default, so the      *)
(* recognizer instance and its handlers stay the same all along.  The      *)
(* recognizer follows the Web Speech lifecycle: start() is rejected unless *)
(* it is idle, events come only from an active recognizer, and an error    *)
(* is followed by an end.                                                  *)
(*                                                                         *)
(* Texts are strings over a two-letter alphabet.  The variables under      *)
(* "observation" and "history" record what a step did and what happened    *)
(* before it; the hook does not read them.                                 *)
(*                                                                         *)
(* SpecTracker is the slide transition tracker                             *)
(* (hooks/useSlideTransitionTracker.ts): one mounted hook observing the    *)
(* store's currentSlideIndex, with a clock that never runs backwards.  A   *)
(* step of it is a call of the hook's interface or a render of the hook,   *)
(* the effect that the render triggers included.  Each specification       *)
(* leaves the other components in their initial state.                     *)
(*                                                                         *)
(* SpecTranscript is the transcript utilities (utils/transcript.ts): pure  *)
(* functions of a list of segments.  A behaviour fixes one list, drawn     *)
(* from the bounded lists, and each step applies one function to it.  The  *)
(* functions never read a segment's text except to join it, so the drawn   *)
(* lists give the segment at position i the text "w<i>".  SpecFormat is    *)
(* formatTimestamp of the same file, which takes no list.                  *)
(*                                                                         *)
(* SpecStore is the session store (stores/session.ts): its actions, called *)
(* in any order with any arguments.  SpecPanel is the store as the         *)
(* transcript panel (TranscriptPanel) drives it: slide navigation, the     *)
(* panel's handleResult with any text a result may carry, and handleClear. *)
(* A segment created in these two is stamped with the clock reading now,   *)
(* which they leave alone.  The handleResult that the recognizer's         *)
(* onresult reaches is the one of the last run of the hook's handlers      *)
(* effect; rebind is that run after the slide index has changed.           *)
(*                                                                         *)
(* SpecLifecycle is the session under the component that owns it: the      *)
(* panel's Start and Stop buttons, the recognizer's start, error and end   *)
(* events, the unmount of the panel, a change of the lang option and a     *)
(* change of onResult.  The recognizer instance in recognitionRef may then *)
(* be one that the handlers effect has not reached, and its events are     *)
(* delivered to no handler.                                                *)
(***************************************************************************)
EXTENDS Integers, Sequences, FiniteSets, TLC

\* ---------------------------------------------------------------- bounds

\* Longest transcript (characters) the model accumulates.
MaxTranscript == 2
\* Most results one recognition event carries.
MaxResults == 2
\* Most unexpected ends (auto-restarts) of one session.
MaxRestarts == 2
\* Largest slide index the tracker observes.
MaxSlideIndex == 2
\* Latest reading of the clock.
MaxTime == 3
\* Most transition records of one tracking run.
MaxTransitions == 3
\* Most segments of a list given to the transcript utilities.
MaxSegments == 3
\* Latest timestamp of such a segment.
MaxStamp == 2
\* Most slides of a deck.
MaxSlides == 2
\* Most segments of the session transcript.
MaxStoreTranscript == 2

\* ------------------------------------------------------------- constants

\* error === null
Null == "null"

NotSupportedMessage ==
  "Speech recognition is not supported in this browser. Please use Chrome or Edge."

\* Error codes the recognizer reports; "aborted" stands for every code the
\* switch of getErrorMessage does not name.
ErrorCodes == {"no-speech", "audio-capture", "not-allowed", "network", "aborted"}

\* result[0].transcript of one recognition result.
Fragments == {"", "a", "b"}

SpeechRecognitionResult == [isFinal : BOOLEAN, transcript : Fragments]

ResultLists ==
  UNION { [1..n -> SpeechRecognitionResult] : n \in 0..MaxResults }

\* event of onresult: results, and the index of the first new one.
SpeechRecognitionEvent ==
  UNION { { [resultIndex |-> i, results |-> rs] : i \in 0..Len(rs) } : rs \in ResultLists }

\* States of the recognizer (external): idle; starting (start() accepted,
\* onstart not yet delivered); running; stopping (stop() accepted, the
\* trailing end pending); failed (error delivered, its end pending).
RecognizerStates == {"idle", "starting", "running", "stopping", "failed", "aborted"}

VARIABLES
  isSupported,        \* SpeechRecognitionClass !== null
  recognitionRef,     \* recognitionRef.current !== null
  recognition,        \* state of the recognizer instance
  isListening,
  transcript,
  interimTranscript,
  error,
  shouldRestartRef,
  isStoppingRef,
  \* --- observation of the last step
  op,                 \* the operation or event handled last
  recCalls,           \* requests it made to the recognizer
  onResultCalls,      \* invocations it made of options.onResult
  raised,             \* an exception escaped it to the caller
  repeatedStop,       \* it was a stop() with no start() since the stop() before
  endedStop,          \* it was the end event that trails a stop()
  delivered,          \* the final and interim text of the event it delivered
  errorCode,          \* the code of the error event it delivered
  \* --- history
  lastIntent,         \* most recent of start() / stop() / error event
  errorNoStart,       \* error delivered; since then no start() and no end
  stopPending,        \* stop() called; since then no end
  lastCall,           \* most recent of start() / stop()
  finalTexts,         \* final texts delivered since the last resetTranscript
  autoRestarts,       \* ends that re-requested start
  \* --- slide transition tracker
  currentSlideIndex,  \* the store's index, as the hook's last render saw it
  now,                \* Date.now()
  transitions,
  sessionStartTime,   \* <<>> for null, <<t>> for the time t
  isTracking,
  previousSlideIndexRef, \* <<>> for null, <<i>> for the index i
  \* --- observation of the tracker's last step
  trackOp,            \* the call or render handled last
  returned,           \* what the call returned
  \* --- history of the tracker
  lastTrackCall,      \* most recent of startTracking() / stopTracking() / reset()
  overData,           \* that call found transitions recorded
  \* --- transcript utilities
  segments,           \* the list the functions are applied to
  utilOp,             \* the function applied last
  utilArgs,           \* its arguments other than the list, Date.now() included
  utilResult,         \* what it returned
  \* --- session store; storeSlideIndex, storeError and storeTranscript are
  \* its currentSlideIndex, error and transcript
  slides,
  storeSlideIndex,
  isLoading,
  storeError,
  pdfFile,
  storeTranscript,
  isRecording,
  storeOp,            \* the store action or panel handler run last
  \* --- the component that owns the session
  boundSlideIndex,    \* currentSlideIndex in the closure of the handleResult
                      \* that recognition.onresult calls
  mounted,            \* the cleanup of the init effect has not run for good
  handlersAttached    \* recognitionRef.current has the session's handlers

sessionVars ==
  <<isListening, transcript, interimTranscript, error, shouldRestartRef, isStoppingRef>>

obsVars ==
  <<op, recCalls, onResultCalls, raised, repeatedStop, endedStop, delivered, errorCode>>

histVars == <<lastIntent, lastCall, errorNoStart, stopPending, finalTexts, autoRestarts>>

recognitionVars == <<isSupported, recognitionRef, recognition, sessionVars, obsVars, histVars>>

trackerVars ==
  <<currentSlideIndex, now, transitions, sessionStartTime, isTracking, previousSlideIndexRef,
    trackOp, returned, lastTrackCall, overData>>

utilVars == <<segments, utilOp, utilArgs, utilResult>>

storeVars ==
  <<slides, storeSlideIndex, isLoading, storeError, pdfFile, storeTranscript, isRecording,
    storeOp>>

ownerVars == <<boundSlideIndex, mounted, handlersAttached>>

vars == <<recognitionVars, trackerVars, utilVars, storeVars, ownerVars>>

\* what a step of one component leaves alone
exceptRecognition == <<trackerVars, utilVars, storeVars, ownerVars>>
exceptTracker == <<recognitionVars, utilVars, storeVars, ownerVars>>
exceptUtil == <<recognitionVars, trackerVars, storeVars, ownerVars>>
exceptStore == <<recognitionVars, trackerVars, utilVars, ownerVars>>

\* ------------------------------------------------------------ recognizer

\* recognition.start() throws (InvalidStateError) unless the recognizer is idle.
recognitionStartRejected(s) == s # "idle"

recognitionStart(s) == IF s = "idle" THEN "starting" ELSE s

\* recognition.stop() on a recognizer that is not active does nothing.
recognitionStop(s) == IF s \in {"starting", "running"} THEN "stopping" ELSE s

\* recognition.abort() on an active recognizer ends the session: the end
\* event follows, and the engine may report the error "aborted" before it.
recognitionAbort(s) == IF s = "idle" THEN "idle" ELSE "aborted"

\* The recognizer is in a state to deliver the event.
recognizerDelivers(event, s) ==
  CASE event = "start" -> s = "starting"
    [] event = "error" -> s \in {"starting", "running", "stopping", "aborted"}
    [] event = "end" -> s \in {"running", "stopping", "failed", "aborted"}

\* The recognizer after an event that no handler answered.
recognizerAfter(event) ==
  CASE event = "start" -> "running"
    [] event = "error" -> "failed"
    [] event = "end" -> "idle"

\* ------------------------------------------------------- pure functions

getErrorMessage(code) ==
  CASE code = "no-speech" -> "No speech detected. Please try again."
    [] code = "audio-capture" -> "No microphone detected. Please check your microphone."
    [] code = "not-allowed" -> "Microphone permission denied. Please allow microphone access."
    [] code = "network" -> "Network error. Please check your connection."
    [] OTHER -> "Speech recognition error: " \o code

\* the loop of onresult, for (i = event.resultIndex; i < results.length; i++),
\* accumulating the transcripts with isFinal = final
RECURSIVE collect(_, _, _)
collect(results, i, final) ==
  IF i >= Len(results) THEN ""
  ELSE (IF results[i + 1].isFinal = final THEN results[i + 1].transcript ELSE "")
         \o collect(results, i + 1, final)

finalTranscript(event) == collect(event.results, event.resultIndex, TRUE)

interim(event) == collect(event.results, event.resultIndex, FALSE)

\* ------------------------------------------------------------- history

\* the texts of a sequence, joined in order
RECURSIVE Concat(_)
Concat(texts) == IF texts = <<>> THEN "" ELSE Head(texts) \o Concat(Tail(texts))

\* The text an event carries: the transcripts of its results from resultIndex
\* on whose finality flag equals final, joined in order.
TextOf(event, final) ==
  LET fresh == SubSeq(event.results, event.resultIndex + 1, Len(event.results))
      IsKind(r) == r.isFinal = final
      kept == SelectSeq(fresh, IsKind)
  IN  Concat([i \in 1..Len(kept) |-> kept[i].transcript])

NoText == [final |-> "", interim |-> ""]

\* no error event delivered by the step
NoCode == "none"

\* The events as onresult reads them: the two texts its loop accumulates, and
\* beside them the texts the event carries.  Events the loop reads alike are
\* delivered once.
EventReadings ==
  { [finalTranscript |-> finalTranscript(event),
     interim |-> interim(event),
     carried |-> [final |-> TextOf(event, TRUE), interim |-> TextOf(event, FALSE)]] :
      event \in SpeechRecognitionEvent }

\* ----------------------------------------------------------------- Init

SessionInit ==
  /\ isSupported \in BOOLEAN
  /\ recognitionRef = isSupported
  /\ recognition = "idle"
  /\ isListening = FALSE
  /\ transcript = ""
  /\ interimTranscript = ""
  /\ error = IF isSupported THEN Null ELSE NotSupportedMessage
  /\ shouldRestartRef = FALSE
  /\ isStoppingRef = FALSE
  /\ op = "init"
  /\ recCalls = <<>>
  /\ onResultCalls = <<>>
  /\ raised = FALSE
  /\ repeatedStop = FALSE
  /\ endedStop = FALSE
  /\ delivered = NoText
  /\ errorCode = NoCode
  /\ lastIntent = "none"
  /\ errorNoStart = FALSE
  /\ stopPending = FALSE
  /\ lastCall = "none"
  /\ finalTexts = <<>>
  /\ autoRestarts = 0

\* ------------------------------------------------------ caller operations

\* (variant) start() also returns while a stop() is in progress
startAllowedNotStopping == recognitionRef /\ isSupported /\ ~isStoppingRef

\* the negation of: if (!recognitionRef.current || !isSupported) return
startAllowed == recognitionRef /\ isSupported

\* (variant) setError(null) placed before the guard
startErrorCleared == Null

\* setError(null), reached only past the guard
startError == IF startAllowed THEN Null ELSE error

\* (variant) isStoppingRef is not reset
startFlagsKeepStopping == [shouldRestart |-> TRUE, isStopping |-> isStoppingRef]

\* shouldRestartRef.current = true; isStoppingRef.current = false
startFlags == [shouldRestart |-> TRUE, isStopping |-> FALSE]

\* (variant) no try/catch around recognition.start()
startRaisesUncaught(rejected) == rejected

\* try { recognition.start() } catch { }: what of a rejected request reaches the caller
startRaises(rejected) == FALSE

start ==
  /\ op' = "start"
  /\ repeatedStop' = FALSE
  /\ endedStop' = FALSE
  /\ delivered' = NoText
  /\ errorCode' = NoCode
  /\ onResultCalls' = <<>>
  /\ lastIntent' = "start"
  /\ errorNoStart' = FALSE
  /\ lastCall' = "start"
  /\ error' = startError
  /\ IF startAllowed
       THEN /\ shouldRestartRef' = startFlags.shouldRestart
            /\ isStoppingRef' = startFlags.isStopping
            /\ recCalls' = <<"start">>
            /\ raised' = startRaises(recognitionStartRejected(recognition))
            /\ recognition' = recognitionStart(recognition)
       ELSE /\ recCalls' = <<>>
            /\ raised' = FALSE
            /\ UNCHANGED <<shouldRestartRef, isStoppingRef, recognition>>
  /\ UNCHANGED <<isSupported, recognitionRef, isListening, transcript, interimTranscript>>
  /\ UNCHANGED <<stopPending, finalTexts, autoRestarts>>

\* (variant) stop() only forwards to the recognizer
stopFlagsUnset == [shouldRestart |-> shouldRestartRef, isStopping |-> isStoppingRef]

\* (variant) stop() toggles isStoppingRef
stopFlagsToggle == [shouldRestart |-> FALSE, isStopping |-> ~isStoppingRef]

\* shouldRestartRef.current = false; isStoppingRef.current = true
stopFlags == [shouldRestart |-> FALSE, isStopping |-> TRUE]

stop ==
  /\ op' = "stop"
  /\ onResultCalls' = <<>>
  /\ raised' = FALSE
  /\ lastIntent' = "stop"
  /\ stopPending' = (recognition # "idle")
  /\ lastCall' = "stop"
  /\ repeatedStop' = (lastCall = "stop")
  /\ endedStop' = FALSE
  /\ delivered' = NoText
  /\ errorCode' = NoCode
  /\ IF recognitionRef
       THEN /\ shouldRestartRef' = stopFlags.shouldRestart
            /\ isStoppingRef' = stopFlags.isStopping
            /\ recCalls' = <<"stop">>
            /\ recognition' = recognitionStop(recognition)
       ELSE /\ recCalls' = <<>>
            /\ UNCHANGED <<shouldRestartRef, isStoppingRef, recognition>>
  /\ UNCHANGED <<isSupported, recognitionRef, isListening, transcript, interimTranscript, error>>
  /\ UNCHANGED <<errorNoStart, finalTexts, autoRestarts>>

\* (variant) resetTranscript() without setError(null)
resetTranscriptKeepsError ==
  /\ op' = "resetTranscript"
  /\ repeatedStop' = FALSE
  /\ endedStop' = FALSE
  /\ delivered' = NoText
  /\ errorCode' = NoCode
  /\ recCalls' = <<>>
  /\ onResultCalls' = <<>>
  /\ raised' = FALSE
  /\ transcript' = ""
  /\ interimTranscript' = ""
  /\ finalTexts' = <<>>
  /\ UNCHANGED <<isSupported, recognitionRef, recognition, isListening, error, shouldRestartRef, isStoppingRef>>
  /\ UNCHANGED <<lastIntent, lastCall, errorNoStart, stopPending, autoRestarts>>

resetTranscript ==
  /\ op' = "resetTranscript"
  /\ repeatedStop' = FALSE
  /\ endedStop' = FALSE
  /\ delivered' = NoText
  /\ errorCode' = NoCode
  /\ recCalls' = <<>>
  /\ onResultCalls' = <<>>
  /\ raised' = FALSE
  /\ transcript' = ""
  /\ interimTranscript' = ""
  /\ error' = Null
  /\ finalTexts' = <<>>
  /\ UNCHANGED <<isSupported, recognitionRef, recognition, isListening, shouldRestartRef, isStoppingRef>>
  /\ UNCHANGED <<lastIntent, lastCall, errorNoStart, stopPending, autoRestarts>>

\* ------------------------------------------------------ recognizer events

\* (variant) onstart without setIsListening(true)
startedListeningKept == isListening

\* setIsListening(true)
startedListening == TRUE

onstart ==
  /\ recognition = "starting"
  /\ recognition' = "running"
  /\ op' = "onstart"
  /\ repeatedStop' = FALSE
  /\ endedStop' = FALSE
  /\ delivered' = NoText
  /\ errorCode' = NoCode
  /\ recCalls' = <<>>
  /\ onResultCalls' = <<>>
  /\ raised' = FALSE
  /\ isListening' = startedListening
  /\ error' = Null
  /\ UNCHANGED <<isSupported, recognitionRef, transcript, interimTranscript, shouldRestartRef, isStoppingRef>>
  /\ UNCHANGED histVars

\* if (finalTranscript) { ... }: the branch that delivers a final result
deliversFinal(final, partial) == final # ""

\* (variant) else if (interim) { ... }
deliversInterimNonEmpty(final, partial) == final = "" /\ partial # ""

\* else { ... }: every other event is delivered as an interim result
deliversInterim(final, partial) == ~deliversFinal(final, partial)

\* (variant) setTranscript(finalTranscript)
setTranscriptReplace(prev, final) == final

\* setTranscript((prev) => prev + finalTranscript)
setTranscript(prev, final) == prev \o final

\* (variant) setInterimTranscript((prev) => prev + interim)
setInterimTranscriptAppend(prev, partial) == prev \o partial

\* setInterimTranscript(interim)
setInterimTranscript(prev, partial) == partial

onresult(read) ==
  LET final == read.finalTranscript
      partial == read.interim
  IN
  /\ recognition \in {"running", "stopping"}
  /\ Len(transcript) + Len(final) <= MaxTranscript
  /\ op' = "onresult"
  /\ repeatedStop' = FALSE
  /\ endedStop' = FALSE
  /\ delivered' = read.carried
  /\ errorCode' = NoCode
  /\ recCalls' = <<>>
  /\ raised' = FALSE
  /\ IF deliversFinal(final, partial)
       THEN /\ transcript' = setTranscript(transcript, final)
            /\ interimTranscript' = ""
            /\ onResultCalls' = << <<final, TRUE>> >>
       ELSE IF deliversInterim(final, partial)
       THEN /\ interimTranscript' = setInterimTranscript(interimTranscript, partial)
            /\ onResultCalls' = << <<partial, FALSE>> >>
            /\ UNCHANGED transcript
       ELSE /\ onResultCalls' = <<>>
            /\ UNCHANGED <<transcript, interimTranscript>>
  /\ UNCHANGED <<isSupported, recognitionRef, recognition, isListening, error, shouldRestartRef, isStoppingRef>>
  /\ finalTexts' = IF read.carried.final # ""
                     THEN Append(finalTexts, read.carried.final) ELSE finalTexts
  /\ UNCHANGED <<lastIntent, lastCall, errorNoStart, stopPending, autoRestarts>>

\* (variant) two cases of the switch exchanged
errorMessageSwapped(code) ==
  getErrorMessage(CASE code = "no-speech" -> "audio-capture"
                    [] code = "audio-capture" -> "no-speech"
                    [] OTHER -> code)

\* setError(getErrorMessage(event.error))
errorMessage(code) == getErrorMessage(code)

\* (variant) onerror leaves shouldRestartRef alone
errorRestartFlagKept == shouldRestartRef

\* shouldRestartRef.current = false  (don't restart on errors)
errorRestartFlag == FALSE

onerror(code) ==
  /\ \/ recognition \in {"starting", "running", "stopping"}
     \/ recognition = "aborted" /\ code = "aborted"
  /\ recognition' = "failed"
  /\ op' = "onerror"
  /\ repeatedStop' = FALSE
  /\ endedStop' = FALSE
  /\ delivered' = NoText
  /\ errorCode' = code
  /\ recCalls' = <<>>
  /\ onResultCalls' = <<>>
  /\ raised' = FALSE
  /\ error' = errorMessage(code)
  /\ shouldRestartRef' = errorRestartFlag
  /\ lastIntent' = "error"
  /\ errorNoStart' = TRUE
  /\ UNCHANGED <<isSupported, recognitionRef, isListening, transcript, interimTranscript, isStoppingRef>>
  /\ UNCHANGED <<lastCall, stopPending, finalTexts, autoRestarts>>

\* (variant) a retry ceiling of one restart
restartOnEndCeiling == shouldRestartRef /\ ~isStoppingRef /\ autoRestarts < 1

\* if (shouldRestartRef.current && !isStoppingRef.current)
restartOnEnd == shouldRestartRef /\ ~isStoppingRef

onend ==
  /\ recognition \in {"running", "stopping", "failed", "aborted"}
  /\ restartOnEnd => autoRestarts < MaxRestarts
  /\ op' = "onend"
  /\ repeatedStop' = FALSE
  /\ endedStop' = stopPending
  /\ delivered' = NoText
  /\ errorCode' = NoCode
  /\ onResultCalls' = <<>>
  /\ raised' = FALSE
  /\ isListening' = FALSE
  /\ IF restartOnEnd
       THEN /\ recCalls' = <<"start">>
            /\ recognition' = recognitionStart("idle")
            /\ autoRestarts' = autoRestarts + 1
       ELSE /\ recCalls' = <<>>
            /\ recognition' = "idle"
            /\ UNCHANGED autoRestarts
  /\ errorNoStart' = FALSE
  /\ stopPending' = FALSE
  /\ UNCHANGED <<isSupported, recognitionRef, transcript, interimTranscript, error, shouldRestartRef, isStoppingRef>>
  /\ UNCHANGED <<lastIntent, lastCall, finalTexts>>

\* ============================================= slide transition tracker

\* null, of sessionStartTime and previousSlideIndexRef.current
NoNumber == <<>>

\* the call returned nothing
NoValue == <<"void">>

SlideTransition(slideIndex, timestamp) == [slideIndex |-> slideIndex, timestamp |-> timestamp]

TrackerInit ==
  /\ currentSlideIndex = 0
  /\ now = 0
  /\ transitions = <<>>
  /\ sessionStartTime = NoNumber
  /\ isTracking = FALSE
  /\ previousSlideIndexRef = NoNumber
  /\ trackOp = "init"
  /\ returned = NoValue
  /\ lastTrackCall = "none"
  /\ overData = FALSE

\* (variant) the effect has no if (!isTracking) return
effectArmedAlways(tracking) == TRUE

\* if (!isTracking) return
effectArmed(tracking) == tracking

\* (variant) the test for a changed slide without prevIndex !== currentSlideIndex
slideChangedNonNull(prev, cur) == prev # NoNumber

\* if (prevIndex !== null && prevIndex !== currentSlideIndex)
slideChanged(prev, cur) == prev # NoNumber /\ prev # <<cur>>

\* (variant) the effect does not update previousSlideIndexRef
effectRefKept(prev, cur) == prev

\* previousSlideIndexRef.current = currentSlideIndex
effectRef(prev, cur) == <<cur>>

\* The effect on [currentSlideIndex, isTracking], run on the state of the
\* render that triggered it: the transitions and the ref it leaves.
effect(trans, prev, tracking, cur, t) ==
  IF ~effectArmed(tracking)
    THEN [transitions |-> trans, ref |-> prev]
    ELSE [transitions |-> IF slideChanged(prev, cur)
                            THEN Append(trans, SlideTransition(cur, t))
                            ELSE trans,
          ref |-> effectRef(prev, cur)]

\* The render after a state change: the effect runs if one of its
\* dependencies differs from the render before.
rendered(trans, prev, tracking, cur, t) ==
  IF cur # currentSlideIndex \/ tracking # isTracking
    THEN effect(trans, prev, tracking, cur, t)
    ELSE [transitions |-> trans, ref |-> prev]

\* (variant) startTracking appends its record to the transitions
startTransitionsAppended(trans, cur, t) == Append(trans, SlideTransition(cur, t))

\* setTransitions([{ slideIndex: currentSlideIndex, timestamp: now }])
startTransitions(trans, cur, t) == << SlideTransition(cur, t) >>

startTracking ==
  LET after == rendered(startTransitions(transitions, currentSlideIndex, now),
                        <<currentSlideIndex>>, TRUE, currentSlideIndex, now)
  IN
  /\ trackOp' = "startTracking"
  /\ returned' = NoValue
  /\ lastTrackCall' = "startTracking"
  /\ overData' = (transitions # <<>>)
  /\ sessionStartTime' = <<now>>
  /\ isTracking' = TRUE
  /\ transitions' = after.transitions
  /\ previousSlideIndexRef' = after.ref
  /\ UNCHANGED <<currentSlideIndex, now>>

stopTracking ==
  LET after == rendered(transitions, previousSlideIndexRef, FALSE, currentSlideIndex, now)
  IN
  /\ trackOp' = "stopTracking"
  /\ returned' = NoValue
  /\ lastTrackCall' = "stopTracking"
  /\ overData' = (transitions # <<>>)
  /\ isTracking' = FALSE
  /\ transitions' = after.transitions
  /\ previousSlideIndexRef' = after.ref
  /\ UNCHANGED <<currentSlideIndex, now, sessionStartTime>>

\* (variant) reset() without setIsTracking(false)
resetTrackingKept == isTracking

\* setIsTracking(false)
resetTracking == FALSE

reset ==
  LET after == rendered(<<>>, NoNumber, resetTracking, currentSlideIndex, now)
  IN
  /\ trackOp' = "reset"
  /\ returned' = NoValue
  /\ lastTrackCall' = "reset"
  /\ overData' = (transitions # <<>>)
  /\ sessionStartTime' = NoNumber
  /\ isTracking' = resetTracking
  /\ transitions' = after.transitions
  /\ previousSlideIndexRef' = after.ref
  /\ UNCHANGED <<currentSlideIndex, now>>

\* The hook renders and useSessionStore() gives it slideIndex: a changed
\* index when the store moved since the last render ("slideChange"), the
\* same index on any other render.  A call made after the store moved and
\* before this render sees the index of the last render, as its closure does.
render(slideIndex) ==
  LET after == rendered(transitions, previousSlideIndexRef, isTracking, slideIndex, now)
  IN
  /\ Len(after.transitions) <= MaxTransitions
  /\ trackOp' = IF slideIndex # currentSlideIndex THEN "slideChange" ELSE "render"
  /\ returned' = NoValue
  /\ currentSlideIndex' = slideIndex
  /\ transitions' = after.transitions
  /\ previousSlideIndexRef' = after.ref
  /\ UNCHANGED <<now, sessionStartTime, isTracking, lastTrackCall, overData>>

\* (variant) every duration is measured up to Date.now()
durationToNow(trans, i, t) == t - trans[i].timestamp

\* nextTransition ? nextTransition.timestamp - transition.timestamp
\*                : Date.now() - transition.timestamp
\* for the i-th transition (counted from 1)
duration(trans, i, t) ==
  IF i < Len(trans)
    THEN trans[i + 1].timestamp - trans[i].timestamp
    ELSE t - trans[i].timestamp

\* the loop of getSlideTimings, from the i-th transition on
RECURSIVE timingsFrom(_, _, _)
timingsFrom(trans, i, t) ==
  IF i > Len(trans) THEN <<>>
  ELSE << [slideIndex |-> trans[i].slideIndex,
           startTime |-> trans[i].timestamp,
           duration |-> duration(trans, i, t)] >>
         \o timingsFrom(trans, i + 1, t)

getSlideTimings(trans, t) ==
  IF Len(trans) = 0 THEN <<>> ELSE timingsFrom(trans, 1, t)

\* (variant) getCurrentSlideDuration without the test of isTracking
getCurrentSlideDurationUnarmed(trans, tracking, t) ==
  IF Len(trans) = 0 THEN 0 ELSE t - trans[Len(trans)].timestamp

getCurrentSlideDuration(trans, tracking, t) ==
  IF ~tracking \/ Len(trans) = 0 THEN 0 ELSE t - trans[Len(trans)].timestamp

callGetSlideTimings ==
  /\ trackOp' = "getSlideTimings"
  /\ returned' = getSlideTimings(transitions, now)
  /\ UNCHANGED <<currentSlideIndex, now, transitions, sessionStartTime, isTracking,
                 previousSlideIndexRef, lastTrackCall, overData>>

callGetCurrentSlideDuration ==
  /\ trackOp' = "getCurrentSlideDuration"
  /\ returned' = getCurrentSlideDuration(transitions, isTracking, now)
  /\ UNCHANGED <<currentSlideIndex, now, transitions, sessionStartTime, isTracking,
                 previousSlideIndexRef, lastTrackCall, overData>>

\* time passes
tick ==
  /\ now < MaxTime
  /\ now' = now + 1
  /\ trackOp' = "tick"
  /\ returned' = NoValue
  /\ UNCHANGED <<currentSlideIndex, transitions, sessionStartTime, isTracking,
                 previousSlideIndexRef, lastTrackCall, overData>>

\* ================================================ transcript utilities

\* const DEFAULT_ROLLING_BUFFER_MS = 60000
DEFAULT_ROLLING_BUFFER_MS == 60000

TranscriptSegment(text, timestamp, slideNumber) ==
  [text |-> text, timestamp |-> timestamp, slideNumber |-> slideNumber]

\* slide numbers of the drawn segments
SlideNumbers == {1, 2}

\* The lists of n segments: any timestamps, in any order, on any slides.
SegmentLists(n) ==
  { [i \in 1..n |-> TranscriptSegment("w" \o ToString(i), f[i][1], f[i][2])] :
      f \in [1..n -> (0..MaxStamp) \X SlideNumbers] }

\* Instants in milliseconds, for formatTimestamp: below and above a second,
\* a minute and an hour.
Instants == {0, 1, 999, 1000, 5000, 59999, 60000, 65000, 3599999, 3600000, 3661000}

\* thresholds given to mergeConsecutiveSegments: none of the differences
\* passes, some pass, all pass
Thresholds == -1..MaxStamp

NoArgs == <<>>

NoResult == <<"none">>

UtilInit ==
  /\ segments = <<>>
  /\ utilOp = "init"
  /\ utilArgs = NoArgs
  /\ utilResult = NoResult

\* (variant) segment.timestamp > cutoffTime
inWindowAfter(segment, cutoffTime) == segment.timestamp > cutoffTime

\* segment.timestamp >= cutoffTime
inWindow(segment, cutoffTime) == segment.timestamp >= cutoffTime

\* getRollingBuffer(segments, windowMs) called at time t
getRollingBuffer(segs, windowMs, t) ==
  LET cutoffTime == t - windowMs
  IN SelectSeq(segs, LAMBDA segment : inWindow(segment, cutoffTime))

\* a % b of JavaScript, b > 0: the remainder has the sign of a
remainder(a, b) == IF a >= 0 THEN a % b ELSE 0 - ((0 - a) % b)

\* n.toString().padStart(2, '0')
pad(n) ==
  LET str == ToString(n)
  IN IF Len(str) < 2 THEN "0" \o str ELSE str

\* Math.floor is \div, which rounds down
formatTimestamp(timestamp, baseTime) ==
  LET diffMs == timestamp - baseTime
      totalSeconds == diffMs \div 1000
      hours == totalSeconds \div 3600
      minutes == remainder(totalSeconds, 3600) \div 60
      seconds == remainder(totalSeconds, 60)
  IN IF hours > 0
       THEN pad(hours) \o ":" \o pad(minutes) \o ":" \o pad(seconds)
       ELSE pad(minutes) \o ":" \o pad(seconds)

\* Math.min(...timestamps) / Math.max(...timestamps), for one or more
\* numbers: the arguments are compared in the order given
RECURSIVE mathMin(_)
mathMin(numbers) ==
  IF Len(numbers) = 1 THEN numbers[1]
  ELSE LET rest == mathMin(Tail(numbers))
       IN IF numbers[1] < rest THEN numbers[1] ELSE rest

RECURSIVE mathMax(_)
mathMax(numbers) ==
  IF Len(numbers) = 1 THEN numbers[1]
  ELSE LET rest == mathMax(Tail(numbers))
       IN IF numbers[1] > rest THEN numbers[1] ELSE rest

\* (variant) the duration from the first segment given to the last
calculateSpeakingDurationEnds(segs) ==
  IF Len(segs) <= 1 THEN 0 ELSE segs[Len(segs)].timestamp - segs[1].timestamp

calculateSpeakingDuration(segs) ==
  IF Len(segs) <= 1 THEN 0
  ELSE LET timestamps == [i \in 1..Len(segs) |-> segs[i].timestamp]
       IN mathMax(timestamps) - mathMin(timestamps)

\* (variant) the time threshold is measured from zero
sameSlideWithinAbsolute(current, next, thresholdMs) ==
  next.slideNumber = current.slideNumber /\ next.timestamp <= thresholdMs

\* (variant) the test without next.slideNumber === current.slideNumber
withinThreshold(current, next, thresholdMs) ==
  next.timestamp - current.timestamp <= thresholdMs

\* next.slideNumber === current.slideNumber &&
\*   next.timestamp - current.timestamp <= thresholdMs
sameSlideWithin(current, next, thresholdMs) ==
  /\ next.slideNumber = current.slideNumber
  /\ next.timestamp - current.timestamp <= thresholdMs

\* (variant) the merged segment takes the timestamp of the segment merged last
mergedIntoLatest(current, next) ==
  [current EXCEPT !.text = current.text \o " " \o next.text,
                  !.timestamp = next.timestamp]

\* current.text = `${current.text} ${next.text}`
mergedInto(current, next) ==
  [current EXCEPT !.text = current.text \o " " \o next.text]

\* the loop of mergeConsecutiveSegments from segments[i] (counted from 1)
\* on, with the accumulator current and the segments pushed so far
RECURSIVE mergeLoop(_, _, _, _, _)
mergeLoop(segs, thresholdMs, i, current, result) ==
  IF i > Len(segs) THEN Append(result, current)
  ELSE IF sameSlideWithin(current, segs[i], thresholdMs)
         THEN mergeLoop(segs, thresholdMs, i + 1, mergedInto(current, segs[i]), result)
         ELSE mergeLoop(segs, thresholdMs, i + 1, segs[i], Append(result, current))

mergeConsecutiveSegments(segs, thresholdMs) ==
  IF Len(segs) = 0 THEN <<>> ELSE mergeLoop(segs, thresholdMs, 2, segs[1], <<>>)

\* (variant) current is the input's own object: current = segments[index]
spreadShared(index) == index

\* { ...segments[index] }: a fresh object.  The value is the position of
\* the input whose object current is, 0 for an object of its own.
spread(index) == 0

\* The input array as the loop of mergeConsecutiveSegments leaves it, from
\* segments[i] (counted from 1) on: current.text = ... writes to the object
\* current is, which is input[alias] unless alias is 0.
RECURSIVE mergeInputLoop(_, _, _, _, _)
mergeInputLoop(input, thresholdMs, i, current, alias) ==
  IF i > Len(input) THEN input
  ELSE IF sameSlideWithin(current, input[i], thresholdMs)
         THEN LET merged == mergedInto(current, input[i])
              IN mergeInputLoop(IF alias = 0 THEN input ELSE [input EXCEPT ![alias] = merged],
                                thresholdMs, i + 1, merged, alias)
         ELSE mergeInputLoop(input, thresholdMs, i + 1, input[i], spread(i))

\* the caller's array after mergeConsecutiveSegments(segs, thresholdMs)
segmentsAfterMerge(segs, thresholdMs) ==
  IF Len(segs) = 0 THEN segs
  ELSE mergeInputLoop(segs, thresholdMs, 2, segs[1], spread(1))

\* ---- the calls

\* the caller holds the list the functions are applied to
giveSegments ==
  /\ utilOp = "init"
  /\ \E n \in 0..MaxSegments : segments' \in SegmentLists(n)
  /\ utilOp' = "segments"
  /\ UNCHANGED <<utilArgs, utilResult>>

\* getRollingBuffer(segments, windowMs) at the time t
callGetRollingBuffer(windowMs, t) ==
  /\ utilOp' = "getRollingBuffer"
  /\ utilArgs' = [windowMs |-> windowMs, now |-> t]
  /\ utilResult' = getRollingBuffer(segments, windowMs, t)
  /\ UNCHANGED segments

\* getRollingBuffer(segments) at the time t: windowMs takes its default
callGetRollingBufferDefault(t) ==
  /\ utilOp' = "getRollingBufferDefault"
  /\ utilArgs' = [now |-> t]
  /\ utilResult' = getRollingBuffer(segments, DEFAULT_ROLLING_BUFFER_MS, t)
  /\ UNCHANGED segments

callFormatTimestamp(timestamp, baseTime) ==
  /\ utilOp' = "formatTimestamp"
  /\ utilArgs' = [timestamp |-> timestamp, baseTime |-> baseTime]
  /\ utilResult' = formatTimestamp(timestamp, baseTime)
  /\ UNCHANGED segments

callCalculateSpeakingDuration ==
  /\ utilOp' = "calculateSpeakingDuration"
  /\ utilArgs' = NoArgs
  /\ utilResult' = calculateSpeakingDuration(segments)
  /\ UNCHANGED segments

callMergeConsecutiveSegments(thresholdMs) ==
  /\ utilOp' = "mergeConsecutiveSegments"
  /\ utilArgs' = [thresholdMs |-> thresholdMs]
  /\ utilResult' = mergeConsecutiveSegments(segments, thresholdMs)
  /\ segments' = segmentsAfterMerge(segments, thresholdMs)

\* mergeConsecutiveSegments applied to what it returned, same threshold
callMergeConsecutiveSegmentsAgain ==
  /\ utilOp \in {"mergeConsecutiveSegments", "mergeConsecutiveSegmentsAgain"}
  /\ utilOp' = "mergeConsecutiveSegmentsAgain"
  /\ utilResult' = mergeConsecutiveSegments(utilResult, utilArgs.thresholdMs)
  /\ UNCHANGED <<segments, utilArgs>>

\* ======================================================= session store

\* a deck of n slides, each known by its page number
Deck(n) == [i \in 1..n |-> i]

\* createInitialState()
createInitialState ==
  [slides |-> <<>>, currentSlideIndex |-> 0, isLoading |-> FALSE, error |-> Null,
   pdfFile |-> Null, transcript |-> <<>>, isRecording |-> FALSE]

StoreInit ==
  /\ slides = createInitialState.slides
  /\ storeSlideIndex = createInitialState.currentSlideIndex
  /\ isLoading = createInitialState.isLoading
  /\ storeError = createInitialState.error
  /\ pdfFile = createInitialState.pdfFile
  /\ storeTranscript = createInitialState.transcript
  /\ isRecording = createInitialState.isRecording
  /\ storeOp = "init"

setSlides(newSlides) ==
  /\ storeOp' = "setSlides"
  /\ slides' = newSlides
  /\ storeSlideIndex' = 0
  /\ storeError' = Null
  /\ UNCHANGED <<isLoading, pdfFile, storeTranscript, isRecording>>

\* Math.min, Math.max of two numbers
min2(a, b) == IF a < b THEN a ELSE b
max2(a, b) == IF a > b THEN a ELSE b

\* (variant) the index clamped from above only
clampedIndexAbove(index, length) == min2(index, length - 1)

\* Math.max(0, Math.min(index, slides.length - 1))
clampedIndex(index, length) == max2(0, min2(index, length - 1))

setCurrentSlide(index) ==
  /\ storeOp' = "setCurrentSlide"
  /\ storeSlideIndex' = IF Len(slides) = 0 THEN 0 ELSE clampedIndex(index, Len(slides))
  /\ UNCHANGED <<slides, isLoading, storeError, pdfFile, storeTranscript, isRecording>>

nextSlide ==
  /\ storeOp' = "nextSlide"
  /\ storeSlideIndex' = IF storeSlideIndex < Len(slides) - 1
                          THEN storeSlideIndex + 1
                          ELSE storeSlideIndex
  /\ UNCHANGED <<slides, isLoading, storeError, pdfFile, storeTranscript, isRecording>>

previousSlide ==
  /\ storeOp' = "previousSlide"
  /\ storeSlideIndex' = IF storeSlideIndex > 0 THEN storeSlideIndex - 1 ELSE storeSlideIndex
  /\ UNCHANGED <<slides, isLoading, storeError, pdfFile, storeTranscript, isRecording>>

setLoading(value) ==
  /\ storeOp' = "setLoading"
  /\ isLoading' = value
  /\ UNCHANGED <<slides, storeSlideIndex, storeError, pdfFile, storeTranscript, isRecording>>

setError(value) ==
  /\ storeOp' = "setError"
  /\ storeError' = value
  /\ UNCHANGED <<slides, storeSlideIndex, isLoading, pdfFile, storeTranscript, isRecording>>

setPdfFile(file) ==
  /\ storeOp' = "setPdfFile"
  /\ pdfFile' = file
  /\ UNCHANGED <<slides, storeSlideIndex, isLoading, storeError, storeTranscript, isRecording>>

resetSession ==
  /\ storeOp' = "resetSession"
  /\ slides' = createInitialState.slides
  /\ storeSlideIndex' = createInitialState.currentSlideIndex
  /\ isLoading' = createInitialState.isLoading
  /\ storeError' = createInitialState.error
  /\ pdfFile' = createInitialState.pdfFile
  /\ storeTranscript' = createInitialState.transcript
  /\ isRecording' = createInitialState.isRecording

\* (variant) the new segment is put first
withSegmentFirst(list, segment) == <<segment>> \o list

\* [...state.transcript, segment]
withSegment(list, segment) == Append(list, segment)

\* addTranscriptSegment and clearTranscript are also called by the panel's
\* handlers: the step that calls them sets storeOp.
addTranscriptSegment(segment) ==
  /\ Len(storeTranscript) < MaxStoreTranscript
  /\ storeTranscript' = withSegment(storeTranscript, segment)
  /\ UNCHANGED <<slides, storeSlideIndex, isLoading, storeError, pdfFile, isRecording>>

clearTranscript ==
  /\ storeTranscript' = <<>>
  /\ UNCHANGED <<slides, storeSlideIndex, isLoading, storeError, pdfFile, isRecording>>

\* setIsRecording is also called by the panel's handlers
setIsRecording(value) ==
  /\ isRecording' = value
  /\ UNCHANGED <<slides, storeSlideIndex, isLoading, storeError, pdfFile, storeTranscript>>

\* ---- transcript panel

\* characters that String.prototype.trim removes, those of the texts below
WhiteSpace == {" "}

RECURSIVE trimStart(_)
trimStart(text) ==
  IF Len(text) > 0 /\ Head(text) \in WhiteSpace THEN trimStart(Tail(text)) ELSE text

RECURSIVE trimEnd(_)
trimEnd(text) ==
  IF Len(text) > 0 /\ SubSeq(text, Len(text), Len(text)) \in WhiteSpace
    THEN trimEnd(SubSeq(text, 1, Len(text) - 1))
    ELSE text

\* text.trim()
trim(text) == trimEnd(trimStart(text))

\* createTranscriptSegment(text, slideNumber) called at time t
createTranscriptSegment(text, slideNumber, t) ==
  TranscriptSegment(trim(text), t, slideNumber)

\* texts a result may carry: empty, blank, with and without blanks around
RawTexts == {"", " ", "a", " a ", "b  "}

\* texts of the segments given to the store
SegmentTexts == {"", "a"}

\* (variant) if (isFinal && text)
handlesResultUntrimmed(text, isFinal) == isFinal /\ text # ""

\* if (isFinal && text.trim())
handlesResult(text, isFinal) == isFinal /\ trim(text) # ""

\* currentSlideIndex in handleResult: the closure's, of the render that
\* made the callback
closedOverIndex(bound) == bound

\* TranscriptPanel.handleResult
handleResult(text, isFinal) ==
  IF handlesResult(text, isFinal)
    THEN /\ addTranscriptSegment(
              createTranscriptSegment(text, closedOverIndex(boundSlideIndex) + 1, now))
         /\ storeOp' = "handleResult"
    ELSE /\ storeOp' = "handleResult"
         /\ UNCHANGED <<slides, storeSlideIndex, isLoading, storeError, pdfFile,
                        storeTranscript, isRecording>>

\* ------------------------------------------------------------------ Spec

\* The component has mounted: the init effect has made the recognizer, if
\* there is one to make, and the handlers effect, which runs after it in
\* the same commit, has attached the handlers to it; handleResult closes
\* over the slide index of the first render.
OwnerInit ==
  /\ boundSlideIndex = createInitialState.currentSlideIndex
  /\ mounted = TRUE
  /\ handlersAttached = recognitionRef

Init == SessionInit /\ TrackerInit /\ UtilInit /\ StoreInit /\ OwnerInit

Next ==
  \/ start /\ UNCHANGED exceptRecognition
  \/ stop /\ UNCHANGED exceptRecognition
  \/ resetTranscript /\ UNCHANGED exceptRecognition
  \/ onstart /\ UNCHANGED exceptRecognition
  \/ \E read \in EventReadings : onresult(read) /\ UNCHANGED exceptRecognition
  \/ \E code \in ErrorCodes : onerror(code) /\ UNCHANGED exceptRecognition
  \/ onend /\ UNCHANGED exceptRecognition

Spec == Init /\ [][Next]_vars

TrackerNext ==
  \/ startTracking /\ UNCHANGED exceptTracker
  \/ stopTracking /\ UNCHANGED exceptTracker
  \/ reset /\ UNCHANGED exceptTracker
  \/ \E slideIndex \in 0..MaxSlideIndex : render(slideIndex) /\ UNCHANGED exceptTracker
  \/ callGetSlideTimings /\ UNCHANGED exceptTracker
  \/ callGetCurrentSlideDuration /\ UNCHANGED exceptTracker
  \/ tick /\ UNCHANGED exceptTracker

SpecTracker == Init /\ [][TrackerNext]_vars

TranscriptNext ==
  \/ giveSegments /\ UNCHANGED exceptUtil
  \/ \E windowMs \in 0..MaxStamp, t \in 0..MaxStamp + 1 :
       callGetRollingBuffer(windowMs, t) /\ UNCHANGED exceptUtil
  \/ \E t \in 0..MaxStamp :
       callGetRollingBufferDefault(DEFAULT_ROLLING_BUFFER_MS + t) /\ UNCHANGED exceptUtil
  \/ callCalculateSpeakingDuration /\ UNCHANGED exceptUtil
  \/ \E thresholdMs \in Thresholds :
       callMergeConsecutiveSegments(thresholdMs) /\ UNCHANGED exceptUtil
  \/ callMergeConsecutiveSegmentsAgain /\ UNCHANGED exceptUtil

SpecTranscript == Init /\ [][TranscriptNext]_vars

StoreNext ==
  \/ \E n \in 0..MaxSlides : setSlides(Deck(n)) /\ UNCHANGED exceptStore
  \/ \E index \in -1..MaxSlides + 1 : setCurrentSlide(index) /\ UNCHANGED exceptStore
  \/ nextSlide /\ UNCHANGED exceptStore
  \/ previousSlide /\ UNCHANGED exceptStore
  \/ \E value \in BOOLEAN : setLoading(value) /\ UNCHANGED exceptStore
  \/ \E value \in {Null, "Failed to load PDF"} : setError(value) /\ UNCHANGED exceptStore
  \/ \E file \in {Null, "file"} : setPdfFile(file) /\ UNCHANGED exceptStore
  \/ resetSession /\ UNCHANGED exceptStore
  \/ \E text \in SegmentTexts, slideNumber \in 1..MaxSlides :
       /\ addTranscriptSegment(TranscriptSegment(text, now, slideNumber))
       /\ storeOp' = "addTranscriptSegment"
       /\ UNCHANGED exceptStore
  \/ clearTranscript /\ storeOp' = "clearTranscript" /\ UNCHANGED exceptStore
  \/ \E value \in BOOLEAN :
       setIsRecording(value) /\ storeOp' = "setIsRecording" /\ UNCHANGED exceptStore

SpecStore == Init /\ [][StoreNext]_vars

\* TranscriptPanel.handleClear
handleClear ==
  /\ clearTranscript
  /\ resetTranscript
  /\ storeOp' = "handleClear"
  /\ UNCHANGED <<trackerVars, utilVars, ownerVars>>

\* The panel has rendered with the store's index, useCallback has made a
\* handleResult that closes over it, and the handlers effect (deps
\* [onResult]) has run and assigned a recognition.onresult that calls it.
rebind ==
  /\ boundSlideIndex # storeSlideIndex
  /\ boundSlideIndex' = storeSlideIndex
  /\ storeOp' = "rebind"
  /\ UNCHANGED <<slides, storeSlideIndex, isLoading, storeError, pdfFile, storeTranscript,
                 isRecording, mounted, handlersAttached>>
  /\ UNCHANGED <<recognitionVars, trackerVars, utilVars>>

\* ---- the owning component: recording buttons, unmount, language change

\* TranscriptPanel.handleStart, behind the Start button, which is shown
\* while !isRecording and disabled while !isSupported
handleStart ==
  /\ mounted
  /\ ~isRecording
  /\ isSupported
  /\ start
  /\ setIsRecording(TRUE)
  /\ storeOp' = "handleStart"
  /\ UNCHANGED <<trackerVars, utilVars, ownerVars>>

\* TranscriptPanel.handleStop, behind the Stop button, shown while isRecording
handleStop ==
  /\ mounted
  /\ isRecording
  /\ stop
  /\ setIsRecording(FALSE)
  /\ storeOp' = "handleStop"
  /\ UNCHANGED <<trackerVars, utilVars, ownerVars>>

\* the observation of a step that is no handler of the session
noHandlerRan(name, calls) ==
  /\ op' = name
  /\ recCalls' = calls
  /\ onResultCalls' = <<>>
  /\ raised' = FALSE
  /\ repeatedStop' = FALSE
  /\ endedStop' = FALSE
  /\ delivered' = NoText
  /\ errorCode' = NoCode

\* "Upload New": resetSession() empties the slides, App renders FileUpload
\* in place of the panel, and the cleanup of the init effect runs:
\* recognition.abort().  The refs and the handlers stay as they are.
unmount ==
  /\ mounted
  /\ resetSession
  /\ mounted' = FALSE
  /\ IF recognitionRef
       THEN /\ recognition' = recognitionAbort(recognition)
            /\ noHandlerRan("unmount", <<"abort">>)
       ELSE /\ recognition' = recognition
            /\ noHandlerRan("unmount", <<>>)
  /\ UNCHANGED <<isSupported, recognitionRef, sessionVars, histVars>>
  /\ UNCHANGED <<boundSlideIndex, handlersAttached, trackerVars, utilVars>>

\* The caller renders the hook with another lang and the same onResult:
\* the init effect (deps [SpeechRecognitionClass, lang]) aborts the old
\* instance and puts a new one in recognitionRef; the handlers effect
\* (deps [onResult]) does not run.  Taken while the old instance is idle,
\* so that no event of it is still to come.
changeLang ==
  /\ mounted
  /\ recognitionRef
  /\ recognition = "idle"
  /\ handlersAttached' = FALSE
  /\ noHandlerRan("changeLang", <<"abort">>)
  /\ UNCHANGED <<isSupported, recognitionRef, recognition, sessionVars, histVars>>
  /\ UNCHANGED <<boundSlideIndex, mounted, trackerVars, utilVars, storeVars>>

\* The caller renders the hook with another onResult: the handlers effect
\* runs and assigns the four handlers to recognitionRef.current.
attachHandlers ==
  /\ mounted
  /\ recognitionRef
  /\ ~handlersAttached
  /\ handlersAttached' = TRUE
  /\ noHandlerRan("attachHandlers", <<>>)
  /\ UNCHANGED <<isSupported, recognitionRef, recognition, sessionVars, histVars>>
  /\ UNCHANGED <<boundSlideIndex, mounted, trackerVars, utilVars, storeVars>>

\* An event of a recognizer that has no handlers: nothing of the session runs.
unhandled(event) ==
  /\ ~handlersAttached
  /\ recognizerDelivers(event, recognition)
  /\ recognition' = recognizerAfter(event)
  /\ noHandlerRan("unhandled", <<>>)
  /\ UNCHANGED <<isSupported, recognitionRef, sessionVars, histVars>>
  /\ UNCHANGED <<ownerVars, trackerVars, utilVars, storeVars>>

LifecycleNext ==
  \/ handleStart
  \/ handleStop
  \/ handlersAttached /\ onstart /\ UNCHANGED exceptRecognition
  \/ \E code \in ErrorCodes : handlersAttached /\ onerror(code) /\ UNCHANGED exceptRecognition
  \/ handlersAttached /\ onend /\ UNCHANGED exceptRecognition
  \/ \E event \in {"start", "error", "end"} : unhandled(event)
  \/ unmount
  \/ changeLang
  \/ attachHandlers

SpecLifecycle == Init /\ [][LifecycleNext]_vars

PanelNext ==
  \/ \E n \in 0..MaxSlides : setSlides(Deck(n)) /\ UNCHANGED exceptStore
  \/ \E index \in -1..MaxSlides + 1 : setCurrentSlide(index) /\ UNCHANGED exceptStore
  \/ nextSlide /\ UNCHANGED exceptStore
  \/ previousSlide /\ UNCHANGED exceptStore
  \/ \E text \in RawTexts, isFinal \in BOOLEAN :
       handleResult(text, isFinal) /\ UNCHANGED exceptStore
  \/ handleClear
  \/ rebind

SpecPanel == Init /\ [][PanelNext]_vars

FormatNext ==
  \E timestamp \in Instants, baseTime \in Instants :
    callFormatTimestamp(timestamp, baseTime) /\ UNCHANGED exceptUtil

SpecFormat == Init /\ [][FormatNext]_vars

TypeOK ==
  /\ isSupported \in BOOLEAN
  /\ recognitionRef \in BOOLEAN
  /\ recognition \in RecognizerStates
  /\ isListening \in BOOLEAN
  /\ Len(transcript) <= MaxTranscript
  /\ Len(interimTranscript) <= MaxResults
  /\ shouldRestartRef \in BOOLEAN
  /\ isStoppingRef \in BOOLEAN
  /\ raised \in BOOLEAN
  /\ autoRestarts \in 0..MaxRestarts

\* ================================================================ claims

\* C1: an end event delivered while the most recent of start() / stop() /
\* error event is a start() requests recognition.start() exactly once,
\* whatever the number of auto-restarts so far.
C1_AutoRestartOnUnexpectedEnd ==
  [][(op' = "onend" /\ lastIntent = "start") => recCalls' = <<"start">>]_vars

\* an end that re-requested start after two earlier auto-restarts
C1_Witness ==
  /\ op = "onend"
  /\ lastIntent = "start"
  /\ recCalls = <<"start">>
  /\ autoRestarts >= 2

\* C2: the end event that follows an error event, with no start() call in
\* between, requests no recognition.start() and leaves the session idle.
C2_NoRestartAfterError ==
  [][(op' = "onend" /\ errorNoStart)
       => (recCalls' = <<>> /\ isListening' = FALSE /\ recognition' = "idle")]_vars

\* the end after an error that hit a listening, restart-armed session
C2_Witness ==
  /\ op = "onend"
  /\ lastIntent = "error"
  /\ lastCall = "start"
  /\ error # Null
  /\ recCalls = <<>>
  /\ ~isListening

\* C3 as stated: the end event that follows a stop() call sets isListening
\* false and requests no recognition.start().
C3_Original ==
  [][(op' = "onend" /\ stopPending) => (recCalls' = <<>> /\ isListening' = FALSE)]_vars

\* C3 amended: the end event that follows a stop() call, with no start() call
\* between that stop() and the end, sets isListening false and requests no
\* recognition.start().
C3_IntentionalStopIsFinal ==
  [][(op' = "onend" /\ stopPending /\ lastCall = "stop")
       => (recCalls' = <<>> /\ isListening' = FALSE /\ recognition' = "idle")]_vars

\* the trailing end of a stop(), no error involved
C3_Witness ==
  /\ op = "onend"
  /\ lastIntent = "stop"
  /\ isStoppingRef
  /\ recCalls = <<>>
  /\ ~isListening
  /\ recognition = "idle"

\* C4: an event whose final text is non-empty appends that text to transcript,
\* empties interimTranscript (interim text in the same event included) and
\* invokes onResult once with (text, true); and transcript is always the
\* in-order concatenation of the final texts delivered since the last
\* resetTranscript().
C4_FinalResultDelivery ==
  [][/\ (op' = "onresult" /\ delivered'.final # "")
          => /\ transcript' = transcript \o delivered'.final
             /\ interimTranscript' = ""
             /\ onResultCalls' = << <<delivered'.final, TRUE>> >>
     /\ transcript' = Concat(finalTexts')]_vars

\* a second final text delivered, by an event that also carried interim text
C4_Witness ==
  /\ op = "onresult"
  /\ delivered.final # ""
  /\ delivered.interim # ""
  /\ Len(finalTexts) >= 2
  /\ finalTexts[1] # finalTexts[2]
  /\ transcript = Concat(finalTexts)
  /\ onResultCalls = << <<delivered.final, TRUE>> >>
  /\ interimTranscript = ""

\* C5: an event with no final text and non-empty interim text replaces
\* interimTranscript by that text, invokes onResult with (text, false) and
\* leaves transcript unchanged.
C5_InterimResultDelivery ==
  [][(op' = "onresult" /\ delivered'.final = "" /\ delivered'.interim # "")
       => /\ interimTranscript' = delivered'.interim
          /\ onResultCalls' = << <<delivered'.interim, FALSE>> >>
          /\ transcript' = transcript]_vars

\* an interim text delivered on top of an accumulated transcript
C5_Witness ==
  /\ op = "onresult"
  /\ delivered.final = ""
  /\ delivered.interim # ""
  /\ transcript # ""
  /\ interimTranscript = delivered.interim
  /\ onResultCalls = << <<delivered.interim, FALSE>> >>

\* C6 as stated: an event with neither final nor interim text changes neither
\* transcript nor interimTranscript and invokes no callback.
C6_Original ==
  [][(op' = "onresult" /\ delivered' = NoText)
       => /\ UNCHANGED <<transcript, interimTranscript>>
          /\ onResultCalls' = <<>>]_vars

\* C6 amended: an event with neither final nor interim text leaves transcript
\* unchanged, sets interimTranscript to empty and invokes onResult once
\* with ("", false).
C6_EmptyResultDelivery ==
  [][(op' = "onresult" /\ delivered' = NoText)
       => /\ transcript' = transcript
          /\ interimTranscript' = ""
          /\ onResultCalls' = << <<"", FALSE>> >>]_vars

\* an empty event delivered on top of an accumulated transcript
C6_Witness ==
  /\ op = "onresult"
  /\ delivered = NoText
  /\ transcript # ""
  /\ interimTranscript = ""
  /\ onResultCalls = << <<"", FALSE>> >>

\* C7: start() with a recognizer present clears error, sets shouldRestartRef,
\* resets isStoppingRef and requests recognition.start(), in every state.
C7_StartRearms ==
  [][(op' = "start" /\ isSupported)
       => /\ error' = Null
          /\ shouldRestartRef' = TRUE
          /\ isStoppingRef' = FALSE
          /\ recCalls' = <<"start">>]_vars

\* start() called after stop() and an error, the error's end still pending
C7_Witness ==
  /\ op = "start"
  /\ recognition = "failed"
  /\ stopPending
  /\ shouldRestartRef
  /\ ~isStoppingRef
  /\ error = Null

\* C8: start() while the recognizer is running raises nothing, leaves
\* isListening, transcript and interimTranscript unchanged, and the session
\* is still listening on a running recognizer with auto-restart armed.
C8_RedundantStart ==
  [][(op' = "start" /\ recognition = "running")
       => /\ raised' = FALSE
          /\ UNCHANGED <<isListening, transcript, interimTranscript>>
          /\ isListening' = TRUE
          /\ recognition' = "running"
          /\ shouldRestartRef' = TRUE]_vars

\* a redundant start() on a listening session with text accumulated
C8_Witness ==
  /\ op = "start"
  /\ recognition = "running"
  /\ isListening
  /\ transcript # ""
  /\ interimTranscript # ""
  /\ ~raised

\* C9: without a recognizer, error starts as the not-supported message, and
\* start() requests nothing and changes no state, whatever came before.
C9_Unsupported ==
  /\ ~isSupported => error = NotSupportedMessage
  /\ [][~isSupported
          => /\ recognition' = "idle" /\ isListening' = FALSE /\ shouldRestartRef' = FALSE
             /\ op' = "start"
                  => (recCalls' = <<>> /\ UNCHANGED <<sessionVars, recognition>>)]_vars

\* start() in an unsupported session, the message still shown afterwards
C9_Witness ==
  /\ ~isSupported
  /\ op = "start"
  /\ lastIntent = "start"
  /\ recCalls = <<>>
  /\ error = NotSupportedMessage
  /\ ~shouldRestartRef

\* C10 as stated: after stop(), shouldRestartRef is false and isStoppingRef is
\* true; a repeated stop() changes nothing; stop() never changes transcript,
\* interimTranscript or error.
C10_Original ==
  [][op' = "stop"
       => /\ shouldRestartRef' = FALSE /\ isStoppingRef' = TRUE
          /\ UNCHANGED <<transcript, interimTranscript, error>>
          /\ lastCall = "stop" => UNCHANGED <<sessionVars, recognition>>]_vars

\* C10 amended: in a session with a recognizer, after stop() shouldRestartRef
\* is false and isStoppingRef is true; in every session a repeated stop()
\* changes nothing, and stop() never changes transcript, interimTranscript
\* or error.
C10_StopIdempotent ==
  [][op' = "stop"
       => /\ recognitionRef => (shouldRestartRef' = FALSE /\ isStoppingRef' = TRUE)
          /\ UNCHANGED <<transcript, interimTranscript, error>>
          /\ lastCall = "stop" => UNCHANGED <<sessionVars, recognition>>]_vars

\* a repeated stop() after the end event of the first
C10_Witness ==
  /\ op = "stop"
  /\ recognitionRef
  /\ repeatedStop
  /\ recognition = "idle"
  /\ ~stopPending
  /\ ~shouldRestartRef
  /\ isStoppingRef
  /\ transcript # ""

\* C11: resetTranscript(), in every state, empties transcript and
\* interimTranscript and sets error to null; it leaves isListening,
\* shouldRestartRef, isStoppingRef and the recognizer as they were and makes
\* no request to the recognizer, so a listening session stays armed for
\* auto-restart.
C11_ResetTranscriptFrame ==
  [][op' = "resetTranscript"
       => /\ transcript' = "" /\ interimTranscript' = "" /\ error' = Null
          /\ UNCHANGED <<isListening, shouldRestartRef, isStoppingRef, recognition>>
          /\ recCalls' = <<>>]_vars

\* resetTranscript() on a listening session that has auto-restarted before
C11_Witness ==
  /\ op = "resetTranscript"
  /\ isListening
  /\ recognition = "running"
  /\ shouldRestartRef /\ ~isStoppingRef
  /\ autoRestarts >= 1
  /\ transcript = "" /\ interimTranscript = "" /\ error = Null

\* C12: shouldRestartRef is true only when the most recent of start(), stop()
\* and error event is a start().
C12_ShouldRestartOnlyAfterStart == shouldRestartRef => lastIntent = "start"

\* still armed after an auto-restart and a result
C12_Witness ==
  /\ shouldRestartRef
  /\ lastIntent = "start"
  /\ autoRestarts >= 1
  /\ op = "onresult"

\* C13: isListening becomes true on every start event and false on every end
\* event, and no other operation or event changes it.
C13_IsListeningMirrorsEvents ==
  [][/\ op' = "onstart" => isListening' = TRUE
     /\ op' = "onend" => isListening' = FALSE
     /\ op' \notin {"onstart", "onend"} => isListening' = isListening]_vars

\* two stop() calls and no end event yet: isListening is still true
C13_Witness ==
  /\ op = "stop"
  /\ repeatedStop
  /\ recognition = "stopping"
  /\ isListening

\* the message of the class of an error code
ClassMessage(code) ==
  IF code = "no-speech" THEN "No speech detected. Please try again."
  ELSE IF code = "audio-capture" THEN "No microphone detected. Please check your microphone."
  ELSE IF code = "not-allowed" THEN "Microphone permission denied. Please allow microphone access."
  ELSE IF code = "network" THEN "Network error. Please check your connection."
  ELSE "Speech recognition error: " \o code

\* C14: an error event sets error to the message of the class of its code,
\* and the message stays until the next start(), start event,
\* resetTranscript() or error event.
C14_ErrorClassification ==
  [][/\ op' = "onerror" => error' = ClassMessage(errorCode')
     /\ op' \notin {"start", "onstart", "resetTranscript", "onerror"} => error' = error]_vars

\* the generic message of an unnamed code, still shown after the end event
C14_Witness ==
  /\ op = "onend"
  /\ lastIntent = "error"
  /\ error = "Speech recognition error: aborted"


\* ------------------------------------------------------------------
\* The record the tracker writes for slide i at time t.
RecordOf(i, t) == [slideIndex |-> i, timestamp |-> t]

\* C15: while tracking is armed, a render that observes a different slide
\* index appends exactly one record {new index, current time} at the end of
\* the transitions; while tracking is disarmed a render appends nothing,
\* whatever index it observes.
C15_TransitionCounting ==
  [][trackOp' \in {"slideChange", "render"}
       => IF isTracking /\ currentSlideIndex' # currentSlideIndex
            THEN transitions' = Append(transitions, RecordOf(currentSlideIndex', now))
            ELSE transitions' = transitions]_vars

\* An armed tracker has just recorded the return to a slide it had recorded
\* before, as its third record.
C15_Witness ==
  /\ trackOp = "slideChange"
  /\ isTracking
  /\ Len(transitions) = 3
  /\ transitions[3].slideIndex = transitions[1].slideIndex
  /\ transitions[3].timestamp > transitions[1].timestamp
  /\ transitions[3].timestamp = now

\* No two consecutive records of trans carry the same slideIndex.
NoConsecutiveDuplicate(trans) ==
  \A i \in 1..Len(trans) - 1 : trans[i].slideIndex # trans[i + 1].slideIndex

\* C16: observing an unchanged slide index never appends a record: a render
\* with the index of the render before leaves the transitions as they were,
\* the arming step leaves exactly its one record, and after every step no
\* two consecutive records carry the same slideIndex.
C16_NoDuplicateTransitions ==
  [][/\ trackOp' = "render" => transitions' = transitions
     /\ trackOp' = "startTracking" => Len(transitions') = 1
     /\ NoConsecutiveDuplicate(transitions')]_vars

\* An armed tracker with three records has rendered again on the slide of
\* its last record, some time after recording it.
C16_Witness ==
  /\ trackOp = "render"
  /\ isTracking
  /\ Len(transitions) = 3
  /\ transitions[3].slideIndex = currentSlideIndex
  /\ now > transitions[3].timestamp

\* C17: startTracking(), whatever the state before it, sets sessionStartTime
\* to the current time, arms tracking and leaves as the transitions the single
\* record {slideIndex: current slide, timestamp: now}.
C17_StartTrackingResets ==
  [][trackOp' = "startTracking"
       => /\ sessionStartTime' = <<now>>
          /\ isTracking' = TRUE
          /\ transitions' = << RecordOf(currentSlideIndex, now) >>]_vars

\* startTracking() was called over recorded transitions, on a slide other
\* than the first and later than the clock's first reading.
C17_Witness ==
  /\ trackOp = "startTracking"
  /\ overData
  /\ currentSlideIndex # 0
  /\ now > 0
  /\ transitions = << RecordOf(currentSlideIndex, now) >>
  /\ sessionStartTime = <<now>>
  /\ isTracking

\* C18: stopTracking() disarms tracking and changes nothing else: the
\* transitions and sessionStartTime are what they were before the call, and
\* slide changes after it leave them so.
C18_StopTrackingNonDestructive ==
  [][/\ trackOp' = "stopTracking"
          => /\ isTracking' = FALSE
             /\ UNCHANGED <<transitions, sessionStartTime, currentSlideIndex,
                            previousSlideIndexRef>>
     /\ (lastTrackCall = "stopTracking" /\ trackOp' \in {"slideChange", "render"})
          => UNCHANGED <<transitions, sessionStartTime, isTracking>>]_vars

\* After stopTracking() over two or more records the slide has changed to a
\* slide other than the last recorded one.
C18_Witness ==
  /\ trackOp = "slideChange"
  /\ lastTrackCall = "stopTracking"
  /\ overData
  /\ ~isTracking
  /\ Len(transitions) >= 2
  /\ sessionStartTime # NoNumber
  /\ currentSlideIndex # transitions[Len(transitions)].slideIndex

\* The tracker holds no data and is disarmed.
Cleared == transitions = <<>> /\ sessionStartTime = NoNumber /\ ~isTracking

\* C19: reset() leaves the tracker with empty transitions, sessionStartTime
\* null and tracking disarmed, and every step other than startTracking()
\* keeps a tracker in that state in it.
C19_ResetClears ==
  [][/\ trackOp' = "reset" => Cleared'
     /\ (Cleared /\ trackOp' # "startTracking") => Cleared']_vars

\* After reset() over recorded transitions, the slide has changed.
C19_Witness ==
  /\ trackOp = "slideChange"
  /\ lastTrackCall = "reset"
  /\ overData
  /\ Cleared
  /\ now > 0

\* C20: getSlideTimings() returns one entry per transition, in order, with
\* the transition's slideIndex, startTime = its timestamp and duration = the
\* next transition's timestamp minus its own where there is a next
\* transition, now minus its own timestamp for the last; with no
\* transitions it returns the empty sequence.
C20_SlideTimings ==
  trackOp = "getSlideTimings"
    => /\ Len(returned) = Len(transitions)
       /\ \A i \in 1..Len(transitions) :
            /\ returned[i].slideIndex = transitions[i].slideIndex
            /\ returned[i].startTime = transitions[i].timestamp
            /\ returned[i].duration =
                 IF i = Len(transitions)
                   THEN now - transitions[i].timestamp
                   ELSE transitions[i + 1].timestamp - transitions[i].timestamp

\* getSlideTimings() has returned two entries of different positive
\* durations, the first shorter than the time since its start.
C20_Witness ==
  /\ trackOp = "getSlideTimings"
  /\ Len(returned) = 2
  /\ returned[1].duration > 0
  /\ returned[2].duration > returned[1].duration
  /\ returned[1].duration < now - returned[1].startTime

\* C21: getCurrentSlideDuration() returns 0 when tracking is not armed or
\* there is no transition, and otherwise now minus the timestamp of the last
\* transition; so it is 0 at the step that records a slide change, and a
\* unit of time later it is one more than before.
C21_CurrentSlideDuration ==
  [][/\ trackOp' = "getCurrentSlideDuration"
          => returned' = IF ~isTracking \/ transitions = <<>>
                           THEN 0
                           ELSE now - transitions[Len(transitions)].timestamp
     /\ (trackOp' = "slideChange" /\ isTracking)
          => now' - transitions'[Len(transitions')].timestamp = 0
     /\ (trackOp' = "tick" /\ isTracking)
          => now' - transitions'[Len(transitions')].timestamp
               = (now - transitions[Len(transitions)].timestamp) + 1]_vars

\* getCurrentSlideDuration() has returned a positive duration on an armed
\* tracker whose last record is a recorded slide change, later than the
\* start of tracking.
C21_Witness ==
  /\ trackOp = "getCurrentSlideDuration"
  /\ isTracking
  /\ Len(transitions) >= 2
  /\ returned > 0
  /\ returned < now - transitions[1].timestamp

\* C30 as stated: isStoppingRef is true only between a stop() call and the
\* end event that completes that stop.
C30_Original == isStoppingRef => stopPending

\* C30: isStoppingRef is true exactly when the session has a recognizer and
\* the most recent of start() and stop() was stop(): stop() sets it, the end
\* event leaves it set, and the next start() clears it.
C30_StoppingUntilStart == isStoppingRef <=> (recognitionRef /\ lastCall = "stop")

\* The end event of a deliberate stop has been handled and the session is
\* idle, with isStoppingRef still set.
C30_Witness ==
  /\ op = "onend"
  /\ recognition = "idle"
  /\ ~isListening
  /\ lastCall = "stop"
  /\ ~stopPending
  /\ isStoppingRef

\* ------------------------------------------------------------------
\* A segment s joins the run that the segment a started.
JoinsRun(a, s, thresholdMs) ==
  s.slideNumber = a.slideNumber /\ s.timestamp - a.timestamp <= thresholdMs

\* The positions of segs that start a run: the first, and every position
\* whose segment does not join the run started last before it.
RunStarts(segs, thresholdMs) ==
  CHOOSE B \in SUBSET (1..Len(segs)) :
    /\ 1 \in B
    /\ \A i \in 2..Len(segs) :
         LET before == { j \in B : j < i }
             last == CHOOSE j \in before : \A k \in before : k <= j
         IN i \in B <=> ~JoinsRun(segs[last], segs[i], thresholdMs)

\* The texts of segs[from..to] joined by single spaces.
RECURSIVE JoinedText(_, _, _)
JoinedText(segs, from, to) ==
  IF from = to THEN segs[from].text
  ELSE JoinedText(segs, from, to - 1) \o " " \o segs[to].text

\* The k-th smallest element of the set of positions S.
Kth(S, k) == CHOOSE i \in S : Cardinality({ j \in S : j <= i }) = k

\* One segment per run, in order: the run's first timestamp and slideNumber
\* and its joined texts.
RunsMerged(segs, thresholdMs) ==
  IF segs = <<>> THEN <<>>
  ELSE LET B == RunStarts(segs, thresholdMs)
           end(k) == IF k = Cardinality(B) THEN Len(segs) ELSE Kth(B, k + 1) - 1
       IN [k \in 1..Cardinality(B) |->
             [text |-> JoinedText(segs, Kth(B, k), end(k)),
              timestamp |-> segs[Kth(B, k)].timestamp,
              slideNumber |-> segs[Kth(B, k)].slideNumber]]

\* C22: mergeConsecutiveSegments(segments, thresholdMs) returns the runs of
\* the reference fold: walking in the given order, a segment joins the
\* running accumulator iff it has the accumulator's slideNumber and its
\* timestamp minus the accumulator's is <= thresholdMs; a run keeps the
\* timestamp and slideNumber of its first segment and joins the texts by
\* single spaces; every run is emitted, and no segments give no runs.
C22_MergeIsReferenceFold ==
  utilOp = "mergeConsecutiveSegments"
    => utilResult = RunsMerged(segments, utilArgs.thresholdMs)

\* Three segments of one slide were merged into two: the third is within
\* the threshold of the second but not of the first, which started the run.
C22_Witness ==
  /\ utilOp = "mergeConsecutiveSegments"
  /\ Len(segments) = 3
  /\ segments[3].slideNumber = segments[1].slideNumber
  /\ segments[3].timestamp - segments[2].timestamp <= utilArgs.thresholdMs
  /\ segments[3].timestamp - segments[1].timestamp > utilArgs.thresholdMs
  /\ utilResult = << [text |-> "w1 w2", timestamp |-> segments[1].timestamp,
                      slideNumber |-> segments[1].slideNumber],
                     segments[3] >>

\* C23: mergeConsecutiveSegments applied to its own result with the same
\* threshold returns that result, for every list, sorted or not, and every
\* threshold.
C23_MergeIdempotent ==
  [][utilOp' = "mergeConsecutiveSegmentsAgain" => utilResult' = utilResult]_vars

\* The merge was applied again to a result of two segments of one slide that
\* came from an unsorted list, the second holding a merged run whose last
\* segment is within the threshold of the first.
C23_Witness ==
  /\ utilOp = "mergeConsecutiveSegmentsAgain"
  /\ Len(segments) = 3
  /\ Len(utilResult) = 2
  /\ utilResult[1].slideNumber = utilResult[2].slideNumber
  /\ utilResult[2].text = "w2 w3"
  /\ segments[3].timestamp < segments[2].timestamp
  /\ segments[3].timestamp - segments[1].timestamp <= utilArgs.thresholdMs

\* The sub-list of segs at the positions in S, in order.
SubList(segs, S) == [k \in 1..Cardinality(S) |-> segs[Kth(S, k)]]

\* The positions of the segments with timestamp >= now - windowMs.
Recent(segs, windowMs, t) == { i \in 1..Len(segs) : segs[i].timestamp >= t - windowMs }

\* C24: getRollingBuffer(segments, windowMs) returns exactly the segments
\* with timestamp >= now - windowMs, the boundary included, in their
\* original order and unmodified; without windowMs the window is 60000 ms;
\* no segments give none.
C24_RollingWindow ==
  /\ utilOp = "getRollingBuffer"
       => utilResult = SubList(segments, Recent(segments, utilArgs.windowMs, utilArgs.now))
  /\ utilOp = "getRollingBufferDefault"
       => utilResult = SubList(segments, Recent(segments, 60000, utilArgs.now))

\* From an unsorted list of three the window kept two, one of them at the
\* boundary, and dropped the one between them.
C24_Witness ==
  /\ utilOp = "getRollingBuffer"
  /\ Len(segments) = 3
  /\ utilArgs.windowMs > 0
  /\ utilResult = << segments[1], segments[3] >>
  /\ segments[3].timestamp = utilArgs.now - utilArgs.windowMs
  /\ segments[1].timestamp > segments[3].timestamp

\* The lists with the segments of segs in another order.
Reordered(segs) ==
  { [i \in 1..Len(segs) |-> segs[p[i]]] : p \in Permutations(1..Len(segs)) }

\* C25: calculateSpeakingDuration(segments) is 0 for no or one segment and
\* otherwise the largest timestamp minus the smallest over the whole list,
\* and it is the same for the segments in any other order.
C25_SpeakingDuration ==
  utilOp = "calculateSpeakingDuration"
    => /\ utilResult =
            IF Len(segments) <= 1 THEN 0
            ELSE LET T == { segments[i].timestamp : i \in 1..Len(segments) }
                 IN (CHOOSE m \in T : \A u \in T : u <= m)
                      - (CHOOSE m \in T : \A u \in T : m <= u)
       /\ \A other \in Reordered(segments) : calculateSpeakingDuration(other) = utilResult

\* The duration of three segments was computed whose latest is the second
\* and whose earliest is the third.
C25_Witness ==
  /\ utilOp = "calculateSpeakingDuration"
  /\ Len(segments) = 3
  /\ segments[2].timestamp > segments[1].timestamp
  /\ segments[1].timestamp > segments[3].timestamp
  /\ utilResult = segments[2].timestamp - segments[3].timestamp

\* C26: formatTimestamp(timestamp, baseTime) returns "00:00" for every
\* timestamp <= baseTime.
C26_NonPositiveElapsedIsZero ==
  (utilOp = "formatTimestamp" /\ utilArgs.timestamp <= utilArgs.baseTime)
    => utilResult = "00:00"

\* ------------------------------------------------------------------
\* C27: the session transcript is append-only: addTranscriptSegment leaves
\* the segments there were, in their order, and puts one more after them;
\* clearTranscript and resetSession empty the transcript; no other store
\* action changes it.
C27_TranscriptAppendOnly ==
  [][/\ storeOp' = "addTranscriptSegment"
          => /\ Len(storeTranscript') = Len(storeTranscript) + 1
             /\ SubSeq(storeTranscript', 1, Len(storeTranscript)) = storeTranscript
     /\ storeOp' \in {"clearTranscript", "resetSession"} => storeTranscript' = <<>>
     /\ storeOp' \notin {"addTranscriptSegment", "clearTranscript", "resetSession"}
          => storeTranscript' = storeTranscript]_vars

\* A segment was added after a different one, on the second slide of a deck
\* and with the recording flag set.
C27_Witness ==
  /\ storeOp = "addTranscriptSegment"
  /\ Len(storeTranscript) = 2
  /\ storeTranscript[1] # storeTranscript[2]
  /\ storeSlideIndex = 1
  /\ isRecording

\* The store's fields other than storeOp.
storeFields ==
  <<slides, storeSlideIndex, isLoading, storeError, pdfFile, storeTranscript, isRecording>>

\* C28: after every store action the current slide index is at least 0 and
\* at most max(0, slides.length - 1); nextSlide at the last slide and
\* previousSlide at slide 0 change nothing.
C28_SlideIndexInRange ==
  [][/\ 0 <= storeSlideIndex'
     /\ storeSlideIndex' <= (IF Len(slides') = 0 THEN 0 ELSE Len(slides') - 1)
     /\ (storeOp' = "nextSlide" /\ storeSlideIndex >= Len(slides) - 1)
          => UNCHANGED storeFields
     /\ (storeOp' = "previousSlide" /\ storeSlideIndex = 0)
          => UNCHANGED storeFields]_vars

\* nextSlide has run and the index is that of the last slide of the largest
\* deck.
C28_Witness ==
  /\ storeOp = "nextSlide"
  /\ Len(slides) = MaxSlides
  /\ storeSlideIndex = Len(slides) - 1

\* strings of whitespace that may stand around a text
Blanks == {"", " ", "  "}

\* C29: handleResult appends exactly one segment, with the text of the
\* result less the whitespace around it, for a final result whose text is
\* not blank, and nothing for any other result; so no segment of the
\* transcript has empty text.
C29_SegmentsFromResults ==
  [][/\ \A text \in RawTexts, isFinal \in BOOLEAN :
          handleResult(text, isFinal)
            => IF isFinal /\ text \notin Blanks
                 THEN /\ Len(storeTranscript') = Len(storeTranscript) + 1
                      /\ SubSeq(storeTranscript', 1, Len(storeTranscript)) = storeTranscript
                      /\ LET added == storeTranscript'[Len(storeTranscript')].text
                         IN /\ \E before \in Blanks, after \in Blanks :
                                 text = before \o added \o after
                            /\ added # ""
                            /\ Head(added) # " "
                            /\ SubSeq(added, Len(added), Len(added)) # " "
                 ELSE storeTranscript' = storeTranscript
     /\ \A i \in 1..Len(storeTranscript') : storeTranscript'[i].text # ""]_vars

\* handleResult has appended "b", from a final result with blanks after it,
\* on the second slide, after a segment "a" of the first.
C29_Witness ==
  /\ storeOp = "handleResult"
  /\ Len(storeTranscript) = 2
  /\ storeTranscript[1].text = "a"
  /\ storeTranscript[1].slideNumber = 1
  /\ storeTranscript[2].text = "b"
  /\ storeTranscript[2].slideNumber = 2

\* ------------------------------------------------------------------
\* C32: when start() was called after a stop() and before that stop's
\* trailing end event (the recognizer rejects the request and the hook
\* swallows the rejection), the trailing end event requests
\* recognition.start(); and in no state is the recognizer idle while
\* shouldRestartRef is true.
C32_StopStartRace ==
  [][/\ (op' = "onend" /\ stopPending /\ lastIntent = "start")
          => (recCalls' = <<"start">> /\ recognition' = "starting")
     /\ shouldRestartRef' => recognition' # "idle"]_vars

\* The trailing end of a stop() that a start() followed has been handled:
\* the recognizer was asked to start and the session is about to listen.
C32_Witness ==
  /\ op = "onend"
  /\ endedStop
  /\ lastCall = "start"
  /\ recCalls = <<"start">>
  /\ recognition = "starting"
  /\ shouldRestartRef
  /\ ~isListening

\* C34: shouldRestartRef and isStoppingRef are never both true.
C34_FlagsExclusive == ~(shouldRestartRef /\ isStoppingRef)

\* start() has been called over a stop() still in progress: the flags have
\* gone from (false, true) to (true, false).
C34_Witness ==
  /\ op = "start"
  /\ stopPending
  /\ recognition = "stopping"
  /\ shouldRestartRef
  /\ ~isStoppingRef

\* the sum of the durations of a sequence of timings
RECURSIVE SumDurations(_)
SumDurations(timings) ==
  IF timings = <<>> THEN 0
  ELSE Head(timings).duration + SumDurations(Tail(timings))

\* C37: whenever the transitions are non-empty, the first transition's
\* timestamp is sessionStartTime and the timestamps are non-decreasing; and
\* the timings getSlideTimings() returns then have durations >= 0, each
\* startTime + duration equal to the next startTime, and durations that sum
\* to now - sessionStartTime.
C37_TimingsPartitionSession ==
  /\ transitions # <<>>
       => /\ sessionStartTime = <<transitions[1].timestamp>>
          /\ \A i \in 1..Len(transitions) - 1 :
               transitions[i].timestamp <= transitions[i + 1].timestamp
          /\ transitions[Len(transitions)].timestamp <= now
  /\ (trackOp = "getSlideTimings" /\ transitions # <<>>)
       => /\ \A i \in 1..Len(returned) : returned[i].duration >= 0
          /\ \A i \in 1..Len(returned) - 1 :
               returned[i].startTime + returned[i].duration = returned[i + 1].startTime
          /\ SumDurations(returned) = now - sessionStartTime[1]

\* getSlideTimings() has returned three timings of a session that was
\* started a second time, after the clock had moved, and whose slides
\* changed at different instants.
C37_Witness ==
  /\ trackOp = "getSlideTimings"
  /\ Len(returned) = 3
  /\ sessionStartTime # <<0>>
  /\ returned[1].duration > 0
  /\ returned[2].duration > 0
  /\ SumDurations(returned) = now - sessionStartTime[1]

\* C38: once stopTracking() has been called, and until the next
\* startTracking() or reset(), no step (time passing, a slide change, a
\* render) changes what getSlideTimings() returns.
C38_TimingsStableAfterStop ==
  [][(lastTrackCall = "stopTracking" /\ lastTrackCall' = "stopTracking")
       => getSlideTimings(transitions', now') = getSlideTimings(transitions, now)]_vars

\* C39: mergeConsecutiveSegments returns at most as many segments as it was
\* given; the returned texts joined by single spaces are the given texts
\* joined by single spaces; every returned segment has the timestamp and the
\* slideNumber of the first given segment of its run; and the given array
\* and its segments are after the call what they were before it.
C39_MergeConservesAndKeepsInput ==
  [][utilOp' = "mergeConsecutiveSegments"
       => LET out == utilResult'
              B == RunStarts(segments, utilArgs'.thresholdMs)
          IN /\ segments' = segments
             /\ Len(out) <= Len(segments)
             /\ segments = <<>> => out = <<>>
             /\ segments # <<>>
                  => /\ out # <<>>
                     /\ JoinedText(out, 1, Len(out)) = JoinedText(segments, 1, Len(segments))
                     /\ Len(out) = Cardinality(B)
                     /\ \A k \in 1..Len(out) :
                          /\ out[k].timestamp = segments[Kth(B, k)].timestamp
                          /\ out[k].slideNumber = segments[Kth(B, k)].slideNumber]_vars

\* Three segments of different timestamps were merged into one, and the
\* caller's first segment still has its own text.
C39_Witness ==
  /\ utilOp = "mergeConsecutiveSegments"
  /\ Len(segments) = 3
  /\ segments[1].text = "w1"
  /\ segments[2].timestamp # segments[1].timestamp
  /\ segments[3].timestamp # segments[2].timestamp
  /\ utilResult = << [text |-> "w1 w2 w3", timestamp |-> segments[1].timestamp,
                      slideNumber |-> segments[1].slideNumber] >>

C33_NoStartAfterTeardown ==
  [][~mounted' => \A i \in 1..Len(recCalls') : recCalls'[i] # "start"]_vars

\* C35: whenever the store's isRecording is true, the session is listening,
\* or the recognizer has a start request pending, or the next end event
\* will restart it.
C35_RecordingMeansListening ==
  isRecording => (isListening \/ recognition = "starting" \/ restartOnEnd)

\* C36: the current recognizer never begins a session (its start event is
\* delivered) without the session's isListening becoming true: its
\* handlers are attached before any of its events.
C36_HandlersFollowRecognizer ==
  [][(recognition = "starting" /\ recognition' = "running") => isListening']_vars


====
